---- MODULE Spec2Model ----
(***************************************************************************)
(* Model of src/src/duktapejs.cpp: the node addon that runs a script in an *)
(* embedded engine, either inline (runSync) or on a libuv worker thread    *)
(* (run), with a blocking bridge that lets the worker call host functions  *)
(* on the main (owning) thread.                                            *)
(*                                                                         *)
(* Strings are sequences of small naturals; 0 is the NUL byte, so that the *)
(* char* conversions of the code (c_str, *Utf8Value) are not the identity. *)
(* Strings handed out by the script engine (callback parameters, result    *)
(* values) are taken NUL-free; strings coming from host code may hold NUL. *)
(***************************************************************************)
EXTENDS Integers, Sequences, FiniteSets, TLC

\* ---- bounds of the model ------------------------------------------------
MaxJobs == 2        \* WorkRequests allocated by run() in one behaviour
MaxCalls == 2       \* callback invocations made by the scripts of one behaviour
MaxApi == 2         \* properties of an api object

Jobs == 1..MaxJobs

\* ---- threads --------------------------------------------------------------
\* The worker thread of job j is named j; the libuv/V8 main thread is 0.
MainThread == 0
NoThread == 0 - 1

\* ---- strings --------------------------------------------------------------
NUL == 0
EmptyStr == <<>>

\* std::string(const char*) and String::New(const char*): the bytes up to
\* the first NUL.
RECURSIVE CStr(_)
CStr(s) == IF s = <<>> THEN <<>>
           ELSE IF Head(s) = NUL THEN <<>>
           ELSE <<Head(s)>> \o CStr(Tail(s))

\* Strings the host passes as parameters (args[1]); the entry point name
\* (args[0]) is the same in every call.
HostStrs == {<<1>>, <<1, NUL, 3>>}
EntryName == <<2>>
\* The parameter string a script passes in its i-th callback invocation.
CallParam(i) == <<3 + i>>
\* The error text of the engine for a failed run.
ErrorText == <<9>>
\* Error codes the engine reports (0: success).
ErrCodes == {0, 1}
\* What the host function bound by job j (0: by a runSync call) returns for
\* parameter p: a JavaScript string, here one with a NUL character in it.
HostFn(j, p) == <<10 + j>> \o p \o <<NUL, 8>>

\* The char* of a String::Utf8Value built from an empty handle.
NullPtr == <<0 - 1>>

\* Utf8Value that turns an empty handle into the empty string.
Utf8Value_mut(threw, s) == IF threw THEN EmptyStr ELSE s

\* Line 129 (and 258): String::Utf8Value retString(retVal); *retString is
\* null when the call threw and retVal is empty.
Utf8Value(threw, s) == IF threw THEN NullPtr ELSE s

\* ---- the api argument (args[3]) ---------------------------------------
\* "undef": absent; "prim": a string or number; "obj": an object whose
\* properties are listed in GetPropertyNames order.  A property is "fn"
\* (string key, function value), "notfn" (value is not a function) or
\* "numkey" (array-index key, reported as a number).
EntryKinds == {"fn", "notfn", "numkey"}
RECURSIVE SeqsUpTo(_, _)
SeqsUpTo(S, n) == IF n = 0 THEN {<<>>}
                  ELSE LET R == SeqsUpTo(S, n - 1)
                       IN  R \cup {Append(r, x) : r \in {q \in R : Len(q) = n - 1}, x \in S}
ApiArgs == {[kind |-> "undef", entries |-> <<>>], [kind |-> "prim", entries |-> <<>>]}
           \cup {[kind |-> "obj", entries |-> e] : e \in SeqsUpTo(EntryKinds, MaxApi)}

\* FirstBad with the test made on the first property only.
FirstBad_mut(entries) ==
    IF Len(entries) > 0 /\ entries[1] # "fn" THEN 1 ELSE 0

\* Index of the first property the loop rejects, 0 when there is none.
FirstBad(entries) ==
    LET bad == {i \in 1..Len(entries) : entries[i] # "fn"}
    IN  IF bad = {} THEN 0 ELSE CHOOSE i \in bad : \A k \in bad : i <= k

VARIABLES
    proc,       \* "running" | "aborted" (abort/crash) | "exited" (FatalException)
    fatal,      \* jobs for whose notifier FatalException has been called
    mainPc,     \* position of the main thread
    mainJob,    \* job whose onWorkDone the main thread is in (0: none)
    mutex,      \* uv_mutex_t mutex
    cv,         \* uv_cond_t cv
    async,      \* uv_async_t async
    nJobs,      \* WorkRequests allocated so far
    work,       \* the WorkRequest of each job
    wpc,        \* position of each job's worker
    env,        \* the APICallbackSignaling of each worker's current call
    calls,      \* history: the callback invocations of each script
    hostLog,    \* history: executions of each job's host function by the handler
                \* (live: the envelope read existed; first: it had no reply yet;
                \* waiting: its worker was in uv_cond_wait)
    engineRet,  \* history: what vm.run returned for each job
    onDone,     \* history: invocations of each job's completion notifier
    resAcc,     \* history: the threads that wrote (w) and read (r) each result slot
    overlap,    \* history: the job was in flight together with another
    lastCall    \* outcome of the latest run()/runSync() call

vars == <<proc, fatal, mainPc, mainJob, mutex, cv, async, nJobs, work, wpc,
          env, calls, hostLog, engineRet, onDone, resAcc, overlap, lastCall>>

NoWork == [alive |-> FALSE, functionName |-> EmptyStr, parameters |-> EmptyStr,
           callback |-> FALSE, hasError |-> FALSE, returnValue |-> EmptyStr,
           registered |-> 0, handles |-> 0]
NoEnv == [live |-> FALSE, idx |-> 0, parameter |-> EmptyStr,
          returnValue |-> EmptyStr, written |-> FALSE]
NoRet == [done |-> FALSE, errorCode |-> 0, value |-> EmptyStr]
\* lastCall: the function called, the shape of its api argument (notfn: some
\* property value is not a function; numkey: some key is not a string), how the
\* call ended, what it returned, what the engine returned to it, the callback
\* invocations it ran inline and the api handles and registrations it left.
NoCall == [fn |-> "none", status |-> "none", api |-> "undef", notfn |-> FALSE,
           numkey |-> FALSE, value |-> EmptyStr, engine |-> NoRet, inline |-> <<>>,
           held |-> 0]

Init ==
    /\ proc = "running"
    /\ fatal = {}
    /\ mainPc = "idle"
    /\ mainJob = 0
    /\ mutex = [st |-> "uninit", owner |-> NoThread]
    /\ cv = [st |-> "uninit", waiters |-> {}]
    /\ async = [st |-> "uninit", pending |-> FALSE, data |-> <<0, 0>>, closePending |-> FALSE]
    /\ nJobs = 0
    /\ work = [j \in Jobs |-> NoWork]
    /\ wpc = [j \in Jobs |-> "none"]
    /\ env = [j \in Jobs |-> NoEnv]
    /\ calls = [j \in Jobs |-> <<>>]
    /\ hostLog = [j \in Jobs |-> <<>>]
    /\ engineRet = [j \in Jobs |-> NoRet]
    /\ onDone = [j \in Jobs |-> <<>>]
    /\ resAcc = [j \in Jobs |-> [w |-> <<>>, r |-> <<>>]]
    /\ overlap = [j \in Jobs |-> FALSE]
    /\ lastCall = NoCall

\* Jobs whose work has been queued and whose onWorkDone has not started.
InFlight == {j \in Jobs : wpc[j] \in {"queued", "script", "b_lock", "b_wait",
                                      "b_waiting", "b_woken", "done"}}

\* Callback invocations made so far by all scripts.
RECURSIVE SumCalls(_)
SumCalls(S) == IF S = {} THEN 0
               ELSE LET j == CHOOSE x \in S : TRUE
                    IN  Len(calls[j]) + SumCalls(S \ {j})
TotalCalls == SumCalls(Jobs)

\* ---- libuv primitives as the code uses them -----------------------------
\* A primitive used outside its initialised life, or re-initialised or
\* destroyed while a thread holds or waits on it, is undefined behaviour:
\* every action that does so may abort the process or carry on.
Crash ==
    /\ proc' = "aborted"
    /\ lastCall' = NoCall
    /\ UNCHANGED <<fatal, mainPc, mainJob, mutex, cv, async, nJobs, work, wpc, env,
                   calls, hostLog, engineRet, onDone, resAcc, overlap>>

\* uv_mutex_init(&mutex); reset tells whether re-initialising a held mutex
\* unlocks it (pthread_mutex_init overwrites) or leaves it as it is (EBUSY).
MutexInit(m, reset) ==
    IF m.st = "init" /\ m.owner # NoThread /\ ~reset THEN m
    ELSE [st |-> "init", owner |-> NoThread]

\* uv_cond_init(&cv); reset tells whether threads waiting on the old
\* condition variable are forgotten.
CondInit(c, reset) ==
    IF c.waiters # {} /\ ~reset THEN [c EXCEPT !.st = "init"]
    ELSE [st |-> "init", waiters |-> {}]

\* uv_async_init(loop, &async, cb): the handle becomes active with
\* pending = 0; data is left alone, and so is a close that is still pending.
AsyncInit(a) == [a EXCEPT !.st = "active", !.pending = FALSE]

\* uv_async_send(&async): sets the pending flag of an active handle (sends
\* coalesce); a handle that is closing or closed is no longer in the loop's
\* list and the wake-up is lost.
AsyncSend(a) == IF a.st = "active" THEN [a EXCEPT !.pending = TRUE] ELSE a

\* onWorkDone without the uv_close of line 97.
AsyncClose_mut(a) == a

\* uv_close((uv_handle_t*) &async, NULL)
AsyncClose(a) == [a EXCEPT !.st = "closing", !.pending = FALSE, !.closePending = TRUE]


\* ---- the api loop of run() and runSync() ---------------------------------
\* args[3]->IsObject()
IsObject(api) == api.kind = "obj"

\* apiLoop that refuses an api value that is present and not an object.
apiLoop_mut(api) ==
    IF ~IsObject(api) THEN [rejected |-> api.kind = "prim", nreg |-> 0]
    ELSE LET fb == FirstBad(api.entries)
         IN  IF fb # 0 THEN [rejected |-> TRUE, nreg |-> fb - 1]
             ELSE [rejected |-> FALSE, nreg |-> Len(api.entries)]

\* Lines 162-202 (233-266 in runSync): a value that is not an object is
\* skipped; the properties of an object are registered one by one until one
\* is rejected.  nreg is the number of registerCallback calls made.
apiLoop(api) ==
    IF ~IsObject(api) THEN [rejected |-> FALSE, nreg |-> 0]
    ELSE LET fb == FirstBad(api.entries)
         IN  IF fb # 0 THEN [rejected |-> TRUE, nreg |-> fb - 1]
             ELSE [rejected |-> FALSE, nreg |-> Len(api.entries)]

\* What lastCall records of the api argument.
ApiShape(api) == [api |-> api.kind,
                  notfn |-> \E i \in 1..Len(api.entries) : api.entries[i] = "notfn",
                  numkey |-> \E i \in 1..Len(api.entries) : api.entries[i] = "numkey"]
CallRecord(fn, status, api) ==
    [NoCall EXCEPT !.fn = fn, !.status = status, !.api = ApiShape(api).api,
                   !.notfn = ApiShape(api).notfn, !.numkey = ApiShape(api).numkey]

\* ---- run() ------------------------------------------------------------
run(nargs, typesOk, params, api) ==
    /\ proc = "running"
    /\ mainPc \in {"idle", "notifier"}
    /\ IF nargs < 5 \/ ~typesOk
       THEN \* lines 139-149: TypeError, nothing allocated
            /\ lastCall' = CallRecord("run", "TypeError", api)
            /\ UNCHANGED <<proc, fatal, mainPc, mainJob, mutex, cv, async, nJobs, work, wpc,
                           env, calls, hostLog, engineRet, onDone, resAcc, overlap>>
       ELSE /\ nJobs < MaxJobs
            /\ LET j == nJobs + 1
                   reg == apiLoop(api)
                   wr == [alive |-> TRUE, functionName |-> CStr(EntryName),
                          parameters |-> CStr(params), callback |-> TRUE,
                          hasError |-> FALSE, returnValue |-> EmptyStr,
                          registered |-> reg.nreg, handles |-> reg.nreg]
               IN  /\ nJobs' = j
                   /\ work' = [work EXCEPT ![j] = wr]
                   /\ IF reg.rejected
                      THEN \* lines 172-176: Error thrown, workReq is not freed
                           /\ wpc' = [wpc EXCEPT ![j] = "failed"]
                           /\ lastCall' = [CallRecord("run", "ApiError", api)
                                             EXCEPT !.held = reg.nreg]
                           /\ UNCHANGED <<mutex, cv, async, overlap>>
                      ELSE \* lines 205-211
                           /\ \E mreset \in IF mutex.owner # NoThread THEN BOOLEAN ELSE {TRUE},
                                 creset \in IF cv.waiters # {} THEN BOOLEAN ELSE {TRUE} :
                                 /\ mutex' = MutexInit(mutex, mreset)
                                 /\ cv' = CondInit(cv, creset)
                           /\ async' = AsyncInit(async)
                           /\ wpc' = [wpc EXCEPT ![j] = "queued"]
                           /\ overlap' = [k \in Jobs |->
                                            IF InFlight # {} /\ (k = j \/ k \in InFlight)
                                            THEN TRUE ELSE overlap[k]]
                           /\ lastCall' = [CallRecord("run", "scheduled", api)
                                             EXCEPT !.held = reg.nreg]
            /\ UNCHANGED <<proc, fatal, mainPc, mainJob, env, calls, hostLog, engineRet,
                           onDone, resAcc>>

\* The host is back in its own code: the latest call has returned or thrown
\* (lines 140, 146, 174, 213; 220, 226, 245, 276, 280) and its outcome is no
\* longer the latest event.
HostReturn ==
    /\ proc = "running"
    /\ lastCall # NoCall
    /\ lastCall' = NoCall
    /\ UNCHANGED <<proc, fatal, mainPc, mainJob, mutex, cv, async, nJobs, work, wpc, env,
                   calls, hostLog, engineRet, onDone, resAcc, overlap>>

\* The calls of run() the host makes, one at a time: too few arguments, an
\* argument of the wrong type, or five arguments of the right types with any
\* api value.
NoApi == [kind |-> "undef", entries |-> <<>>]
Run == /\ lastCall = NoCall
       /\ \/ \E a \in {<<4, TRUE>>, <<5, FALSE>>} : run(a[1], a[2], <<1>>, NoApi)
          \/ \E params \in HostStrs, api \in ApiArgs : run(5, TRUE, params, api)

\* The run() calls of a host whose api arguments are well formed: no api, or
\* an object with one function.
JobApis == {NoApi, [kind |-> "obj", entries |-> <<"fn">>]}
Submit == /\ lastCall = NoCall
          /\ \E params \in HostStrs, api \in JobApis : run(5, TRUE, params, api)

\* ---- the worker: onWork and the script engine ----------------------------
\* Line 87-89: a threadpool thread picks the request up and enters vm.run.
OnWorkStart(j) ==
    /\ proc = "running"
    /\ wpc[j] = "queued"
    /\ wpc' = [wpc EXCEPT ![j] = "script"]
    /\ lastCall' = NoCall
    /\ UNCHANGED <<proc, fatal, mainPc, mainJob, mutex, cv, async, nJobs, work, env,
                   calls, hostLog, engineRet, onDone, resAcc, overlap>>

\* The running script invokes a registered callback: the engine enters the
\* duktapeToNodeBridge lambda of run() with the parameter string.
ScriptCall(j) ==
    /\ proc = "running"
    /\ wpc[j] = "script"
    /\ work[j].registered > 0
    /\ TotalCalls < MaxCalls
    /\ calls' = [calls EXCEPT ![j] = Append(@, [param |-> CallParam(Len(@) + 1),
                                                 replied |-> FALSE, reply |-> EmptyStr,
                                                 written |-> FALSE])]
    /\ wpc' = [wpc EXCEPT ![j] = "b_lock"]
    /\ lastCall' = NoCall
    /\ UNCHANGED <<proc, fatal, mainPc, mainJob, mutex, cv, async, nJobs, work, env,
                   hostLog, engineRet, onDone, resAcc, overlap>>

\* The value the engine returns: the error text of a failed run, else the
\* reply of the last callback invocation, else the parameters it was given.
EngineValue(j, err) ==
    IF err # 0 THEN ErrorText
    ELSE IF calls[j] # <<>> THEN calls[j][Len(calls[j])].reply
    ELSE work[j].parameters

\* onWork that also stores a provisional result before the final one.
onWork_mut(j, err) ==
    /\ proc = "running"
    /\ wpc[j] = "script"
    /\ LET ret == [done |-> TRUE, errorCode |-> err, value |-> EngineValue(j, err)]
       IN  /\ engineRet' = [engineRet EXCEPT ![j] = ret]
           /\ work' = [work EXCEPT ![j].hasError = (ret.errorCode # 0),
                                   ![j].returnValue = ret.value]
    /\ resAcc' = [resAcc EXCEPT ![j].w = Append(Append(@, j), j)]
    /\ wpc' = [wpc EXCEPT ![j] = "done"]
    /\ lastCall' = NoCall
    /\ UNCHANGED <<proc, fatal, mainPc, mainJob, mutex, cv, async, nJobs, env,
                   calls, hostLog, onDone, overlap>>

\* Lines 89-91: vm.run returns and onWork stores the result in the request.
onWork(j, err) ==
    /\ proc = "running"
    /\ wpc[j] = "script"
    /\ LET ret == [done |-> TRUE, errorCode |-> err, value |-> EngineValue(j, err)]
       IN  /\ engineRet' = [engineRet EXCEPT ![j] = ret]
           /\ work' = [work EXCEPT ![j].hasError = (ret.errorCode # 0),
                                   ![j].returnValue = ret.value]
    /\ resAcc' = [resAcc EXCEPT ![j].w = Append(@, j)]
    /\ wpc' = [wpc EXCEPT ![j] = "done"]
    /\ lastCall' = NoCall
    /\ UNCHANGED <<proc, fatal, mainPc, mainJob, mutex, cv, async, nJobs, env,
                   calls, hostLog, onDone, overlap>>

\* ---- the worker side of a callback: duktapeToNodeBridge (run) -----------
\* The bridge with the lock given up before the wake-up is sent.
BridgeCall_mut(j) ==
    /\ proc = "running"
    /\ wpc[j] = "b_lock"
    /\ \/ mutex.st # "init" /\ Crash
       \/ /\ mutex.owner = NoThread
          /\ LET i == Len(calls[j])
             IN  /\ env' = [env EXCEPT ![j] = [live |-> TRUE, idx |-> i,
                                               parameter |-> calls[j][i].param,
                                               returnValue |-> EmptyStr, written |-> FALSE]]
                 /\ async' = AsyncSend([async EXCEPT !.data = <<j, i>>])
          /\ wpc' = [wpc EXCEPT ![j] = "b_wait"]
          /\ lastCall' = NoCall
          /\ UNCHANGED <<proc, fatal, mainPc, mainJob, mutex, cv, nJobs, work,
                         calls, hostLog, engineRet, onDone, resAcc, overlap>>

\* Lines 185-189: uv_mutex_lock, then the envelope is created, published
\* in async.data and the main thread is signalled with uv_async_send.
BridgeCall(j) ==
    /\ proc = "running"
    /\ wpc[j] = "b_lock"
    /\ \/ mutex.st # "init" /\ Crash
       \/ /\ mutex.owner = NoThread
          /\ mutex' = [mutex EXCEPT !.owner = j]
          /\ LET i == Len(calls[j])
             IN  /\ env' = [env EXCEPT ![j] = [live |-> TRUE, idx |-> i,
                                               parameter |-> calls[j][i].param,
                                               returnValue |-> EmptyStr, written |-> FALSE]]
                 /\ async' = AsyncSend([async EXCEPT !.data = <<j, i>>])
          /\ wpc' = [wpc EXCEPT ![j] = "b_wait"]
          /\ lastCall' = NoCall
          /\ UNCHANGED <<proc, fatal, mainPc, mainJob, cv, nJobs, work,
                         calls, hostLog, engineRet, onDone, resAcc, overlap>>

\* Line 191, first half: uv_cond_wait releases the mutex and blocks; the
\* wait is taken to end only by a signal.
BridgeWait(j) ==
    /\ proc = "running"
    /\ wpc[j] = "b_wait"
    /\ \/ (cv.st # "init" \/ mutex.st # "init" \/ mutex.owner # j) /\ Crash
       \/ /\ mutex' = [mutex EXCEPT !.owner = NoThread]
          /\ cv' = [cv EXCEPT !.waiters = @ \cup {j}]
          /\ wpc' = [wpc EXCEPT ![j] = "b_waiting"]
          /\ lastCall' = NoCall
          /\ UNCHANGED <<proc, fatal, mainPc, mainJob, async, nJobs, work, env,
                         calls, hostLog, engineRet, onDone, resAcc, overlap>>

\* Lines 191 (second half) to 196: the signalled waiter re-acquires the
\* mutex, unlocks it, copies returnValue out of the envelope, destroys the
\* envelope (unique_ptr) and returns the copy to the script.
BridgeReturn(j) ==
    /\ proc = "running"
    /\ wpc[j] = "b_woken"
    /\ \/ mutex.st # "init" /\ Crash
       \/ /\ mutex.owner = NoThread
          /\ calls' = [calls EXCEPT ![j][Len(calls[j])] =
                          [@ EXCEPT !.replied = TRUE, !.reply = env[j].returnValue,
                                    !.written = env[j].written]]
          /\ env' = [env EXCEPT ![j].live = FALSE]
          /\ wpc' = [wpc EXCEPT ![j] = "script"]
          /\ lastCall' = NoCall
          /\ UNCHANGED <<proc, fatal, mainPc, mainJob, mutex, cv, async, nJobs, work,
                         hostLog, engineRet, onDone, resAcc, overlap>>

\* ---- the main thread: callV8FunctionOnMainThread ------------------------
\* The event loop finds async pending, clears the flag and calls the
\* handler, which first has to get the mutex (line 122).
HandlerStart ==
    /\ proc = "running"
    /\ mainPc = "idle"
    /\ async.st = "active" /\ async.pending
    /\ async' = [async EXCEPT !.pending = FALSE]
    /\ mainPc' = "h_lock"
    /\ lastCall' = NoCall
    /\ UNCHANGED <<proc, fatal, mainJob, mutex, cv, nJobs, work, wpc, env,
                   calls, hostLog, engineRet, onDone, resAcc, overlap>>

\* Lines 122-133: with the mutex held, the envelope async.data points to is
\* served: the bound function runs with String::New(parameter.c_str()), its
\* result is stored as std::string(*retString), one waiter is signalled and
\* the mutex is released.  An envelope its worker has already destroyed is
\* a dangling pointer: the process crashes, or the stale request is run
\* again and its reply lost.
\* A host function that throws makes Call return an empty handle (there is
\* no TryCatch); String::Utf8Value of an empty handle holds a null char*,
\* and std::string(NULL) on line 130 ends the process (logic_error with no
\* handler, or a fault in strlen), the mutex still held.
callV8FunctionOnMainThread ==
    /\ proc = "running"
    /\ mainPc = "h_lock"
    /\ LET j == async.data[1]
           i == async.data[2]
           valid == env[j].live /\ env[j].idx = i
           misuse == ~valid \/ cv.st # "init" \/ mutex.st # "init"
           param == IF valid THEN CStr(env[j].parameter) ELSE CStr(calls[j][i].param)
       IN  \/ misuse /\ Crash
           \/ \E threw \in BOOLEAN :
              LET retString == Utf8Value(threw, HostFn(j, param))
              IN
              /\ mutex.owner = NoThread
              /\ hostLog' = [hostLog EXCEPT ![j] =
                               Append(@, [param |-> param, idx |-> i, thread |-> MainThread,
                                          threw |-> threw, live |-> valid,
                                          first |-> valid /\ ~env[j].written,
                                          waiting |-> j \in cv.waiters])]
              /\ lastCall' = NoCall
              /\ IF retString = NullPtr
                 THEN /\ proc' = "aborted"
                      /\ mutex' = [mutex EXCEPT !.owner = MainThread]
                      /\ UNCHANGED <<env, cv, wpc, mainPc>>
                 ELSE /\ env' = IF valid
                                THEN [env EXCEPT ![j].returnValue = CStr(retString),
                                                 ![j].written = TRUE]
                                ELSE env
                      /\ IF cv.waiters = {}
                         THEN UNCHANGED <<cv, wpc>>
                         ELSE \E w \in cv.waiters :
                                 /\ cv' = [cv EXCEPT !.waiters = @ \ {w}]
                                 /\ wpc' = [wpc EXCEPT ![w] = "b_woken"]
                      /\ mainPc' = "idle"
                      /\ UNCHANGED <<proc, mutex>>
              /\ UNCHANGED <<fatal, mainJob, async, nJobs, work,
                             calls, engineRet, onDone, resAcc, overlap>>


\* ---- the main thread: onWorkDone ----------------------------------------
\* Lines 97-111: the signalling globals are torn down, the result is read
\* and the completion notifier is called with (hasError, returnValue).
onWorkDone(j) ==
    /\ proc = "running"
    /\ mainPc = "idle"
    /\ wpc[j] = "done"
    /\ LET misuse == \/ async.st # "active"
                     \/ mutex.st # "init" \/ mutex.owner # NoThread
                     \/ cv.st # "init" \/ cv.waiters # {}
       IN  \/ misuse /\ Crash
           \/ /\ async' = AsyncClose(async)
              /\ mutex' = [mutex EXCEPT !.st = "destroyed"]
              /\ cv' = [cv EXCEPT !.st = "destroyed"]
              /\ resAcc' = [resAcc EXCEPT ![j].r = Append(@, MainThread)]
              /\ onDone' = [onDone EXCEPT ![j] =
                              Append(@, [hasError |-> work[j].hasError,
                                         value |-> CStr(work[j].returnValue),
                                         thread |-> MainThread, threw |-> FALSE])]
              /\ wpc' = [wpc EXCEPT ![j] = "notifying"]
              /\ mainPc' = "notifier"
              /\ mainJob' = j
              /\ lastCall' = NoCall
              /\ UNCHANGED <<proc, fatal, nJobs, work, env, calls, hostLog, engineRet, overlap>>

\* Lines 113-118: the notifier has returned or thrown.  A caught exception
\* goes to FatalException, which ends the process unless the host handles
\* it; the ScopedUvWorkRequest destructor then frees the request.
\* The test of line 113 left out: an exception of the notifier is dropped.
HasCaught_mut(throws) == FALSE

\* Line 113: try_catch.HasCaught()
HasCaught(throws) == throws

NotifierReturn(throws, exits) ==
    /\ proc = "running"
    /\ mainPc = "notifier"
    /\ onDone' = [onDone EXCEPT ![mainJob][Len(onDone[mainJob])].threw = throws]
    /\ fatal' = IF HasCaught(throws) THEN fatal \cup {mainJob} ELSE fatal
    /\ lastCall' = NoCall
    /\ IF HasCaught(throws) /\ exits
       THEN /\ proc' = "exited"
            /\ UNCHANGED <<mainPc, mainJob, work, wpc>>
       ELSE /\ work' = [work EXCEPT ![mainJob].alive = FALSE, ![mainJob].callback = FALSE]
            /\ wpc' = [wpc EXCEPT ![mainJob] = "delivered"]
            /\ mainPc' = "idle"
            /\ mainJob' = 0
            /\ UNCHANGED proc
    /\ UNCHANGED <<mutex, cv, async, nJobs, env, calls, hostLog, engineRet,
                   resAcc, overlap>>

\* End of the loop iteration: libuv finishes pending closes.  A handle that
\* was initialised again while its close was pending fails libuv's
\* assertion, or stays in use when assertions are compiled out.
RunClosingHandles ==
    /\ proc = "running"
    /\ mainPc = "idle"
    /\ async.closePending
    /\ \/ async.st # "closing" /\ Crash
       \/ /\ async' = [async EXCEPT !.closePending = FALSE,
                                    !.st = IF @ = "closing" THEN "closed" ELSE @]
          /\ lastCall' = NoCall
          /\ UNCHANGED <<proc, fatal, mainPc, mainJob, mutex, cv, nJobs, work, wpc, env,
                         calls, hostLog, engineRet, onDone, resAcc, overlap>>

\* ---- runSync() ----------------------------------------------------------
\* The inline bridge of runSync (lines 251-261) for the i-th callback
\* invocation of the script.
InlineReply(i) == CStr(HostFn(0, CStr(CallParam(i))))

\* runSync that returns the engine's value whatever the error code.
SyncOutcome_mut(ret) == "value"

\* Lines 274-280: a non-zero errorCode throws Error(ret.value), else the
\* value is returned.
SyncOutcome(ret) == IF ret.errorCode # 0 THEN "ScriptError" ELSE "value"

\* n is the number of callback invocations the script makes, err the error
\* code the engine ends with; threw tells that the host function throws in
\* the n-th invocation, which ends the process inside the bridge (line 260)
\* as it does in the wake handler.
runSyncInline(nargs, typesOk, params, api, n, err, threw) ==
    /\ proc = "running"
    /\ mainPc \in {"idle", "notifier"}
    /\ LET reg == apiLoop(api)
           value == IF err # 0 THEN ErrorText
                    ELSE IF n > 0 THEN InlineReply(n)
                    ELSE CStr(params)
           ret == [done |-> TRUE, errorCode |-> err, value |-> value]
       IN  IF nargs < 3 \/ ~typesOk
           THEN \* lines 219-229
                /\ lastCall' = CallRecord("runSync", "TypeError", api)
                /\ UNCHANGED proc
           ELSE IF reg.rejected
           THEN \* lines 243-247: vm and the Local handles go out of scope
                /\ lastCall' = CallRecord("runSync", "ApiError", api)
                /\ UNCHANGED proc
           ELSE \* lines 268-280
                /\ (n > 0 => reg.nreg > 0)
                /\ IF n > 0 /\ Utf8Value(threw, HostFn(0, CStr(CallParam(n)))) = NullPtr
                   THEN /\ proc' = "aborted"
                        /\ lastCall' = [CallRecord("runSync", "aborted", api) EXCEPT
                                          !.inline = [i \in 1..n |-> CStr(CallParam(i))]]
                   ELSE /\ lastCall' = [CallRecord("runSync", SyncOutcome(ret), api)
                              EXCEPT
                              !.value = CStr(ret.value),
                              !.engine = ret,
                              !.inline = [i \in 1..n |-> CStr(CallParam(i))]]
                        /\ UNCHANGED proc

\* runSync whose bridge wakes the async handler as the bridge of run() does.
runSync_mut(nargs, typesOk, params, api, n, err, threw) ==
    /\ runSyncInline(nargs, typesOk, params, api, n, err, threw)
    /\ async' = IF n > 0 THEN AsyncSend(async) ELSE async
    /\ UNCHANGED <<fatal, mainPc, mainJob, mutex, cv, nJobs, work, wpc, env,
                   calls, hostLog, engineRet, onDone, resAcc, overlap>>

\* Lines 216-281: vm is a local, the bridge of lines 251-261 calls the host
\* function directly; nothing of the job machinery is touched.
runSync(nargs, typesOk, params, api, n, err, threw) ==
    /\ runSyncInline(nargs, typesOk, params, api, n, err, threw)
    /\ UNCHANGED <<fatal, mainPc, mainJob, mutex, cv, async, nJobs, work, wpc, env,
                   calls, hostLog, engineRet, onDone, resAcc, overlap>>

\* The calls of runSync() the host makes, as for run(); a script can only
\* invoke callbacks that were registered.
RunSync ==
    /\ lastCall = NoCall
    /\ \/ \E a \in {<<2, TRUE>>, <<3, FALSE>>} :
             runSync(a[1], a[2], <<1>>, NoApi, 0, 0, FALSE)
       \/ \E api \in {a \in ApiArgs : FirstBad(a.entries) # 0} :
             runSync(4, TRUE, <<1>>, api, 0, 0, FALSE)
       \/ \E params \in HostStrs, api \in {a \in ApiArgs : FirstBad(a.entries) = 0},
             n \in 0..MaxCalls, err \in ErrCodes, threw \in BOOLEAN :
             /\ n <= Len(api.entries) * MaxCalls
             /\ threw => (n > 0 /\ err = 0)
             /\ runSync(4, TRUE, params, api, n, err, threw)

\* ---- the system -----------------------------------------------------------
Worker == \E j \in Jobs :
            \/ OnWorkStart(j)
            \/ ScriptCall(j)
            \/ BridgeCall(j)
            \/ BridgeWait(j)
            \/ BridgeReturn(j)
            \/ \E err \in ErrCodes : onWork(j, err)

Handler == HandlerStart \/ callV8FunctionOnMainThread

Completion == \/ \E j \in Jobs : onWorkDone(j)
              \/ \E throws \in BOOLEAN, exits \in BOOLEAN : NotifierReturn(throws, exits)
              \/ RunClosingHandles

\* Jobs submitted at any time by a host whose api arguments are well formed.
Next == Submit \/ HostReturn \/ Worker \/ Handler \/ Completion

Spec == Init /\ [][Next]_vars

\* The two entry points together: runSync() calls at any time, next to run()
\* calls of which at most one schedules a job.
Scheduled == {j \in Jobs : wpc[j] \notin {"none", "failed"}}
RunOne == Run /\ Cardinality(Scheduled') <= 1

NextSync == RunSync \/ RunOne \/ HostReturn \/ Worker \/ Handler \/ Completion

SpecSync == Init /\ [][NextSync]_vars

\* Jobs one at a time: run() is called only when no earlier job is still
\* before its onWorkDone; it may be called from inside a completion notifier.
SubmitAlone == Submit /\ InFlight = {}

NextSeq == SubmitAlone \/ HostReturn \/ Worker \/ Handler \/ Completion

SpecSeq == Init /\ [][NextSeq]_vars

\* The thread pool runs queued work and a running script goes on, a thread
\* that can take the mutex or was signalled gets to run, and the event loop
\* keeps turning: it calls the pending async handler and the after-work
\* callbacks and lets a running callback finish.
Fairness ==
    /\ \A j \in Jobs : WF_vars(OnWorkStart(j) \/ ScriptCall(j) \/ BridgeCall(j)
                                 \/ BridgeWait(j) \/ BridgeReturn(j)
                                 \/ \E err \in ErrCodes : onWork(j, err))
    /\ WF_vars(Handler)
    /\ WF_vars(Completion)

SpecSeqFair == SpecSeq /\ Fairness

\* ======================= the claims =======================================
\* Jobs that run() handed to the thread pool.
Submitted(j) == wpc[j] \notin {"none", "failed"}

\* The process is alive and no thread can take a step: every worker that has
\* not finished is blocked for good and the loop has nothing to deliver.
Quiescent == proc = "running" /\ ~ENABLED (Worker \/ Handler \/ Completion)

\* The reply the host function of job j gives to the i-th callback
\* invocation of j's script, as a C string.
OwnReply(j, i) == CStr(HostFn(j, CStr(calls[j][i].param)))

\* C1: every job submitted through run() has its completion notifier invoked
\* exactly once: never twice, and once no thread can move any more not zero
\* times; on the main thread, with hasError = (errorCode # 0) and with the
\* value the engine returned for that job.
C1_OnDoneExactlyOnce ==
    \A j \in Jobs : Submitted(j) =>
        /\ Len(onDone[j]) <= 1
        /\ Quiescent => Len(onDone[j]) = 1
        /\ \A k \in 1..Len(onDone[j]) :
              /\ onDone[j][k].thread = MainThread
              /\ engineRet[j].done
              /\ onDone[j][k].hasError = (engineRet[j].errorCode # 0)
              /\ onDone[j][k].value = engineRet[j].value


\* The value the engine returns for job j when every callback invocation
\* of its script is answered by j's own host function.
OwnValue(j) ==
    IF engineRet[j].errorCode # 0 THEN ErrorText
    ELSE IF calls[j] # <<>> THEN OwnReply(j, Len(calls[j]))
    ELSE work[j].parameters

\* C2: jobs whose executions overlapped (a later run() was called before an
\* earlier job's onWorkDone) all get their notifier invoked, none is left
\* blocked when no thread can move any more, and each one's callback replies
\* and result are those of its own host function and parameters.
C2_OverlappingJobsComplete ==
    \A j \in Jobs : overlap[j] =>
        /\ Quiescent => Len(onDone[j]) = 1
        /\ \A i \in 1..Len(calls[j]) :
              calls[j][i].replied => calls[j][i].reply = OwnReply(j, i)
        /\ \A k \in 1..Len(onDone[j]) : onDone[j][k].value = OwnValue(j)

\* C3: within one callback invocation the worker neither resumes from the
\* wait nor reads returnValue before the handler has run the bound function
\* and stored its result in that invocation's envelope.
C3_ReplyWrittenBeforeResume ==
    \A j \in Jobs :
        /\ wpc[j] = "b_woken" => env[j].written
        /\ \A i \in 1..Len(calls[j]) : calls[j][i].replied => calls[j][i].written

\* C4: a script that invoked a callback M times had the bound host function
\* run M times, on the main thread, the i-th run with the parameter of the
\* i-th invocation, and no run started before the reply of the previous
\* invocation was written and returned to the worker.
C4_HostRunsOncePerCall ==
    \A j \in Jobs :
        /\ Len(hostLog[j]) <= Len(calls[j])
        /\ engineRet[j].done => Len(hostLog[j]) = Len(calls[j])
        /\ \A k \in 1..Len(hostLog[j]) :
              /\ hostLog[j][k].thread = MainThread
              /\ hostLog[j][k].idx = k
              /\ k <= Len(calls[j]) => hostLog[j][k].param = calls[j][k].param
              /\ k > 1 => calls[j][k - 1].replied /\ calls[j][k - 1].written

\* The mutex, condition variable and wake signal job j's bridge uses: the
\* three globals of lines 80-82, whatever the job.
ChannelOf(j) == <<"mutex", "cv", "async">>

\* C5: no two jobs in flight share their signalling primitives, and every
\* reply a worker's call returns was written by the handler and is the reply
\* of that worker's own host function to that call's own parameter.
C5_ChannelOwnedPerJob ==
    /\ \A j1 \in InFlight, j2 \in InFlight : j1 # j2 => ChannelOf(j1) # ChannelOf(j2)
    /\ \A j \in Jobs : \A i \in 1..Len(calls[j]) :
          calls[j][i].replied =>
              calls[j][i].written /\ calls[j][i].reply = OwnReply(j, i)

\* C6: the result slot of a job is written at most once and only by the
\* job's worker, read at most once and only by the main thread, and a read or
\* a notifier invocation happens only after the worker has finished the
\* script run and stored the result.
C6_ResultSlotOneWriteOneRead ==
    \A j \in Jobs :
        /\ Len(resAcc[j].w) <= 1
        /\ \A k \in 1..Len(resAcc[j].w) : resAcc[j].w[k] = j
        /\ Len(resAcc[j].r) <= 1
        /\ \A k \in 1..Len(resAcc[j].r) : resAcc[j].r[k] = MainThread
        /\ (resAcc[j].r # <<>> \/ onDone[j] # <<>>) =>
              /\ engineRet[j].done
              /\ Len(resAcc[j].w) = 1
              /\ wpc[j] \in {"notifying", "delivered"}
              /\ work[j].hasError = (engineRet[j].errorCode # 0)
              /\ work[j].returnValue = engineRet[j].value

\* A job was delivered after its script made a callback invocation.
C6_Witness ==
    \E j \in Jobs : /\ resAcc[j].r = <<MainThread>> /\ resAcc[j].w = <<j>>
                    /\ Len(onDone[j]) = 1 /\ calls[j] # <<>>


\* C7: a run() or runSync() call whose api object has a property whose value
\* is not a function ends with the api error and changes nothing else: the
\* engine is not run, no work is queued, and mutex, cv and async are left
\* as they were.
C7_BadApiEntryFailsEarly ==
    [][(lastCall'.fn # "none" /\ lastCall'.notfn) =>
          /\ lastCall'.status = "ApiError"
          /\ lastCall'.engine = NoRet /\ lastCall'.inline = <<>>
          /\ engineRet' = engineRet
          /\ Scheduled' = Scheduled
          /\ UNCHANGED <<mutex, cv, async, env, calls, hostLog, onDone>>]_vars

\* run() has just failed on such an api object while a job was in flight
\* and the signalling globals were initialised.
C7_Witness ==
    /\ lastCall.fn = "run" /\ lastCall.notfn /\ lastCall.status = "ApiError"
    /\ InFlight # {} /\ mutex.st = "init" /\ async.st = "active"

C9_RegistryAtomic ==
    /\ \A j \in Jobs : wpc[j] = "failed" =>
          /\ ~(work[j].alive /\ work[j].registered > 0)
          /\ work[j].handles = 0
    /\ lastCall.status = "ApiError" => lastCall.held = 0

\* C10: a completion notifier that threw had FatalException called for it,
\* whether its job ended with or without a script error.
C10_NotifierThrowIsFatal ==
    \A j \in Jobs : \A k \in 1..Len(onDone[j]) : onDone[j][k].threw => j \in fatal

\* Two notifiers threw, one of a job that failed and one of a job that did
\* not (the host handled the first exception and the process went on).
C10_Witness ==
    \E j1 \in Jobs, j2 \in Jobs :
        /\ Len(onDone[j1]) = 1 /\ onDone[j1][1].threw /\ onDone[j1][1].hasError
        /\ Len(onDone[j2]) = 1 /\ onDone[j2][1].threw /\ ~onDone[j2][1].hasError

\* C11: a host function that raised while the wake handler was invoking it
\* for an async job has ended the process: the process is not running with
\* the worker blocked in its call or the envelope unreplied, and the handler
\* went no further: that run stored no reply and signalled no worker.
C11_HostThrowIsFatal ==
    \A j \in Jobs : \A k \in 1..Len(hostLog[j]) :
        hostLog[j][k].threw =>
            /\ proc = "aborted"
            /\ k = Len(hostLog[j])
            /\ mainPc = "h_lock" /\ mutex.owner = MainThread

\* The host function of a job threw while the job's worker was waiting for
\* the reply.
C11_Witness ==
    \E j \in Jobs : /\ hostLog[j] # <<>> /\ hostLog[j][Len(hostLog[j])].threw
                    /\ wpc[j] = "b_waiting" /\ env[j].live /\ proc = "aborted"
\* C12: a runSync() call in which the engine returned has exactly one
\* outcome: with errorCode 0 it returns the engine's value unchanged, with a
\* non-zero errorCode it throws an error carrying the engine's error text;
\* the process goes on, and the error text is never the returned value.
C12_RunSyncOneOutcome ==
    lastCall.fn = "runSync" =>
        /\ lastCall.status \in {"value", "ScriptError"} <=> lastCall.engine.done
        /\ lastCall.engine.done =>
              /\ proc = "running"
              /\ lastCall.value = lastCall.engine.value
              /\ lastCall.status = "value" <=> lastCall.engine.errorCode = 0
              /\ lastCall.status = "ScriptError" <=> lastCall.engine.errorCode # 0
              /\ lastCall.status = "ScriptError" => lastCall.value = ErrorText

\* runSync() has just thrown the error text of a script that failed after
\* invoking a callback.
C12_Witness ==
    /\ lastCall.fn = "runSync" /\ lastCall.status = "ScriptError"
    /\ lastCall.value = ErrorText /\ lastCall.inline # <<>>
\* C13: a runSync() call leaves the cross-thread channel as it was: the
\* mutex, the condition variable and the async handle are not locked, waited
\* on, sent, initialised or destroyed, no work is queued and no worker or
\* handler moves; the callbacks of the script are run inline by the call
\* itself, each with its parameter, and the last reply is the script's value.
C13_RunSyncLeavesChannel ==
    [][lastCall'.fn = "runSync" =>
          /\ UNCHANGED <<mutex, cv, async, nJobs, work, wpc, env, calls, hostLog,
                         mainPc, mainJob, engineRet, onDone>>
          /\ \A i \in 1..Len(lastCall'.inline) : lastCall'.inline[i] = CStr(CallParam(i))
          /\ (lastCall'.status = "value" /\ lastCall'.inline # <<>>) =>
                lastCall'.value = InlineReply(Len(lastCall'.inline))]_vars

\* runSync() has just returned the reply of an inline callback while the
\* worker of an async job was waiting for the reply to a callback of its own.
C13_Witness ==
    /\ lastCall.fn = "runSync" /\ lastCall.status = "value" /\ lastCall.inline # <<>>
    /\ \E j \in Jobs : wpc[j] = "b_waiting" /\ env[j].live
    /\ mutex.st = "init" /\ async.st = "active" /\ async.pending
InCall == {j \in Jobs : wpc[j] \in {"b_wait", "b_waiting", "b_woken"}}

\* C15: there is one envelope for each call in flight and none otherwise,
\* and every run of the wake handler read, through async.data, an envelope
\* that its worker had not destroyed and that had no reply yet.
C15_EnvelopeSingleUse ==
    \A j \in Jobs :
        /\ env[j].live <=> j \in InCall
        /\ \A k \in 1..Len(hostLog[j]) : hostLog[j][k].live /\ hostLog[j][k].first
\* C16: every WorkRequest run() allocated is released on every exit path:
\* it is gone once its completion was delivered and once run() has failed on
\* an invalid api entry, none is left allocated when no thread can move any
\* more, and none is released before its worker has finished and its
\* notifier has returned.
C16_JobReleasedOnEveryPath ==
    \A j \in Jobs :
        /\ wpc[j] \in {"failed", "delivered"} => ~work[j].alive
        /\ (Quiescent /\ wpc[j] # "none") => ~work[j].alive
        /\ (wpc[j] # "none" /\ ~work[j].alive) => wpc[j] \in {"failed", "delivered"}
\* C17, the ordering: with one job in flight, every run of the wake handler
\* found the requesting worker in uv_cond_wait, and a worker that is at the
\* lock or has been signalled finds the mutex free.
C17_NoLostWakeup ==
    \A j \in Jobs :
        /\ \A k \in 1..Len(hostLog[j]) : hostLog[j][k].waiting /\ hostLog[j][k].live
        /\ (proc = "running" /\ wpc[j] \in {"b_lock", "b_woken"}) =>
              mutex.st = "init" /\ mutex.owner = NoThread
        /\ (proc = "running" /\ wpc[j] = "b_wait") =>
              mutex.owner = j /\ cv.st = "init"

\* C17: with one job in flight no wake-up is lost: the ordering above always
\* holds and, under fair scheduling, a worker that has entered a callback
\* invocation gets back to the script unless the host function threw or the
\* process was brought down.
C17_CallReturns ==
    /\ []C17_NoLostWakeup
    /\ \A j \in Jobs : (wpc[j] \in {"b_lock", "b_wait", "b_waiting", "b_woken"})
                            ~> (wpc[j] = "script" \/ proc # "running")

\* A worker is back in its script with the reply to its second callback
\* invocation, both served while it was waiting.
C17_Witness ==
    \E j \in Jobs : /\ wpc[j] = "script" /\ Len(calls[j]) = 2 /\ calls[j][2].replied
                    /\ Len(hostLog[j]) = 2 /\ hostLog[j][2].waiting /\ proc = "running"
\* Some host function threw in the wake handler (the fatal case of C11).
HostThrew == \E j \in Jobs : \E k \in 1..Len(hostLog[j]) : hostLog[j][k].threw

\* C19: with jobs submitted one at a time, also from inside the previous
\* job's notifier, a queued job finds the mutex, the condition variable and
\* the async handle freshly initialised, with no close of the previous job
\* still pending on them; the process is not brought down by their reuse;
\* every job's notifier is invoked once (never twice, and not zero times once
\* no thread can move), with the job's own value, and every callback
\* invocation is answered by the job's own host function.
C19_SequentialJobsComplete ==
    /\ proc = "aborted" => HostThrew
    /\ \A j \in Jobs :
          /\ wpc[j] = "queued" =>
                /\ mutex = [st |-> "init", owner |-> NoThread]
                /\ cv = [st |-> "init", waiters |-> {}]
                /\ async.st = "active" /\ ~async.closePending
          /\ Len(onDone[j]) <= 1
          /\ (Quiescent /\ Submitted(j)) => Len(onDone[j]) = 1
          /\ \A k \in 1..Len(onDone[j]) : onDone[j][k].value = OwnValue(j)
          /\ \A i \in 1..Len(calls[j]) :
                calls[j][i].replied =>
                    calls[j][i].written /\ calls[j][i].reply = OwnReply(j, i)
\* C18: the mutex, the condition variable and the async handle are used
\* only while initialised: a mutex that is held, a condition variable that
\* is waited on and a handle with a wake-up pending are initialised and not
\* destroyed or closed, a worker inside a callback invocation finds all
\* three initialised, and a job is not queued (run() has just initialised
\* them) while another job is in flight on them.
C18_PrimitivesUsedWhileInit ==
    /\ mutex.owner # NoThread => mutex.st = "init"
    /\ cv.waiters # {} => cv.st = "init"
    /\ async.pending => async.st = "active"
    /\ \A j \in Jobs :
          /\ (proc = "running" /\ wpc[j] \in {"b_lock", "b_wait", "b_waiting", "b_woken"}) =>
                mutex.st = "init" /\ cv.st = "init" /\ async.st = "active"
          /\ wpc[j] = "queued" => InFlight = {j}

====
